---- MODULE Spec2Model ----
(***************************************************************************)
(* Two-bar truss sizing with OpenMDAO: the three scripts main.py, debug.py *)
(* and test.py, the truss component's compute, the problem each script     *)
(* hands to the SLSQP driver, and the driver's optimization loop.          *)
(*                                                                         *)
(* Floating point numbers are decimal floats with a four digit mantissa:   *)
(* [k |-> "num", m |-> mantissa, e |-> exponent] is m * 10^e, with         *)
(* 1000 <= |m| <= 9999 or m = 0; k = "inf" is a signed infinity (m = 1 or  *)
(* -1), k = "nan" is not-a-number.  Every operation rounds (toward zero)   *)
(* as a float operation does, and division by zero gives inf or nan as     *)
(* numpy's array division does.  An operation takes its operands by value  *)
(* (each is evaluated once, as the operands of a float operation are): its *)
(* definition binds them in a singleton set.                               *)
(***************************************************************************)
EXTENDS Integers, Sequences, FiniteSets, TLC

VARIABLES script, cfg, pc, err, prob, outputs, hasEval,
          st, x, iter, dir, alphaK, reason, result,
          cin, cout

vars == <<script, cfg, pc, err, prob, outputs, hasEval,
          st, x, iter, dir, alphaK, reason, result, cin, cout>>

(***************************************************************************)
(* Float arithmetic                                                        *)
(***************************************************************************)
Abs(n) == IF n < 0 THEN -n ELSE n

Sgn(n) == IF n < 0 THEN -1 ELSE IF n = 0 THEN 0 ELSE 1

FNan == [k |-> "nan", m |-> 0, e |-> 0]

FInf(s) == [k |-> "inf", m |-> s, e |-> 0]

FZero == [k |-> "num", m |-> 0, e |-> 0]

RECURSIVE NormPos(_, _)
NormPos(m, e) ==
    IF m >= 10000 THEN NormPos(m \div 10, e + 1)
    ELSE IF m < 1000 THEN NormPos(m * 10, e - 1)
    ELSE [m |-> m, e |-> e]

\* The float nearest zero-ward to m * 10^e.
Norm(m, e) ==
    IF m = 0 THEN FZero
    ELSE LET n == NormPos(Abs(m), e)
         IN  [k |-> "num", m |-> Sgn(m) * n.m, e |-> n.e]

F(m, e) == Norm(m, e)

IsFinite(a) == a.k = "num"

NegNum(a) == IF a.k = "nan" THEN a ELSE [a EXCEPT !.m = -a.m]

FNeg(a) ==
    CHOOSE r \in {NegNum(aa) : aa \in {a}} : TRUE

RECURSIVE Pow10(_)
Pow10(n) == IF n = 0 THEN 1 ELSE 10 * Pow10(n - 1)

AddNum(a, b) ==
    IF a.k = "nan" \/ b.k = "nan" THEN FNan
    ELSE IF a.k = "inf" /\ b.k = "inf" THEN (IF a.m = b.m THEN a ELSE FNan)
    ELSE IF a.k = "inf" THEN a
    ELSE IF b.k = "inf" THEN b
    ELSE IF a.m = 0 THEN b
    ELSE IF b.m = 0 THEN a
    ELSE LET hi == IF a.e >= b.e THEN a ELSE b
             lo == IF a.e >= b.e THEN b ELSE a
             dd == hi.e - lo.e
         IN  IF dd > 4 THEN hi
             ELSE Norm(hi.m * Pow10(dd) + lo.m, lo.e)

FAdd(a, b) ==
    CHOOSE r \in {AddNum(aa, bb) : aa \in {a}, bb \in {b}} : TRUE

FSub(a, b) == FAdd(a, FNeg(b))

MulNum(a, b) ==
    IF a.k = "nan" \/ b.k = "nan" THEN FNan
    ELSE IF a.k = "inf" \/ b.k = "inf"
         THEN (IF a.m = 0 \/ b.m = 0 THEN FNan ELSE FInf(Sgn(a.m) * Sgn(b.m)))
    ELSE Norm(a.m * b.m, a.e + b.e)

FMul(a, b) ==
    CHOOSE r \in {MulNum(aa, bb) : aa \in {a}, bb \in {b}} : TRUE

DivNum(a, b) ==
    IF a.k = "nan" \/ b.k = "nan" THEN FNan
    ELSE IF a.k = "inf" THEN (IF b.k = "inf" THEN FNan
                              ELSE FInf(a.m * (IF b.m < 0 THEN -1 ELSE 1)))
    ELSE IF b.k = "inf" THEN FZero
    ELSE IF b.m = 0 THEN (IF a.m = 0 THEN FNan ELSE FInf(Sgn(a.m)))
    ELSE LET q == (Abs(a.m) * 100000) \div Abs(b.m)
         IN  Norm(Sgn(a.m) * Sgn(b.m) * q, a.e - b.e - 5)

FDiv(a, b) ==
    CHOOSE r \in {DivNum(aa, bb) : aa \in {a}, bb \in {b}} : TRUE

RECURSIVE ISqrtIn(_, _, _)
ISqrtIn(n, lo, hi) ==
    IF lo >= hi THEN lo
    ELSE CHOOSE r \in {IF mid * mid <= n THEN ISqrtIn(n, mid, hi)
                                          ELSE ISqrtIn(n, lo, mid - 1) :
                          mid \in {(lo + hi + 1) \div 2}} : TRUE

\* The integer square root of 0 <= n < 2^31.
ISqrt(n) == ISqrtIn(n, 0, 46340)

SqrtNum(a) ==
    IF a.k = "nan" THEN FNan
    ELSE IF a.m < 0 THEN FNan
    ELSE IF a.k = "inf" THEN a
    ELSE IF a.m = 0 THEN FZero
    ELSE LET odd == (a.e % 2) # 0
             m2  == IF odd THEN a.m * 10 ELSE a.m
             e2  == IF odd THEN a.e - 1 ELSE a.e
         IN  Norm(ISqrt(m2 * 10000), (e2 - 4) \div 2)

FSqrt(a) ==
    CHOOSE r \in {SqrtNum(aa) : aa \in {a}} : TRUE

FPow2(a) == FMul(a, a)

FPow3(a) == FMul(FMul(a, a), a)

\* a <= b; every comparison with nan is false.
LeNum(a, b) ==
    LET dlt == FSub(b, a)
    IN  dlt.k # "nan" /\ dlt.m >= 0

FLe(a, b) ==
    CHOOSE r \in {LeNum(aa, bb) : aa \in {a}, bb \in {b}} : TRUE

LtNum(a, b) ==
    LET dlt == FSub(b, a)
    IN  dlt.k # "nan" /\ dlt.m > 0

FLt(a, b) ==
    CHOOSE r \in {LtNum(aa, bb) : aa \in {a}, bb \in {b}} : TRUE

MaxNum(a, b) == IF FLe(a, b) THEN b ELSE a

FMax(a, b) ==
    CHOOSE r \in {MaxNum(aa, bb) : aa \in {a}, bb \in {b}} : TRUE

FPi == F(3142, -3)

(***************************************************************************)
(* The truss component: TrussAnalysis (main.py, debug.py), Truss (test.py) *)
(***************************************************************************)
Scripts == {"main", "debug", "test"}

\* main.py promotes every variable of 'truss' to the top level; debug.py and
\* test.py add the subsystem unpromoted, so its variables are 'truss.<name>'.
Prefix(s) == IF s = "main" THEN "" ELSE "truss."

\* The subsystem that computes stress - buckling.
ConPrefix(s) == IF s = "main" THEN "" ELSE "buckling_constraint."

\* add_input names of the component's setup.
TrussInputNames(s) ==
    CASE s = "main"  -> {"H", "d", "B", "t", "E", "P", "rho", "stressMax", "deflectionMax"}
      [] s = "debug" -> {"H", "d", "B", "t", "E", "P", "rho"}
      [] s = "test"  -> {"H", "d", "B", "t", "E", "P", "rho", "stress_max", "d_max"}

\* add_output names of the component's setup.
TrussOutputNames(s) ==
    CASE s = "main"  -> {"cost", "stress", "buckling", "deflection"}
      [] s = "debug" -> {"cost", "stress", "buckling", "deflection"}
      [] s = "test"  -> {"cost", "stress", "buckling", "delfection"}

\* The value an output holds before its first evaluation: the val its
\* add_output gives (0 in main.py and test.py), the framework's default 1.0
\* where none is given (debug.py, and the stress - buckling output everywhere).
OutputDefault(s, n) ==
    IF s # "debug" /\ n \in {Prefix(s) \o t : t \in TrussOutputNames(s)}
    THEN FZero ELSE F(1, 0)

\* compute's geometric locals: L = sqrt((B/2)**2 + H**2), A = pi*d*t,
\* IoverA = (d**2 + t**2) / 8.
TrussLocals(inp) ==
    [L |-> FSqrt(FAdd(FPow2(FDiv(inp.B, F(2, 0))), FPow2(inp.H))),
     A |-> FMul(FMul(FPi, inp.d), inp.t),
     IoverA |-> FDiv(FAdd(FPow2(inp.d), FPow2(inp.t)), F(8, 0))]

\* compute's four responses from the inputs and the locals, in the order and
\* association of the source.
TrussResponses(inp, loc) ==
    LET H == inp.H
        E == inp.E
        P == inp.P
        rho == inp.rho
        L == loc.L
        A == loc.A
        IoverA == loc.IoverA
        stress == FDiv(FMul(P, L), FMul(FMul(F(2, 0), A), H))
        deflection == FDiv(FMul(P, FPow3(L)),
                           FMul(FMul(FMul(F(2, 0), E), A), FPow2(H)))
        buckling == FDiv(FMul(FMul(FPow2(FPi), E), IoverA), FPow2(L))
        cost == FMul(FMul(FMul(F(2, 0), rho), A), L)
    IN  [stress |-> stress, deflection |-> deflection,
         buckling |-> buckling, cost |-> cost]

\* compute: the locals are computed once, then the responses.
TrussCompute(inp) ==
    CHOOSE r \in {TrussResponses(i, loc) : i \in {inp}, loc \in {TrussLocals(inp)}} :
       TRUE

\* A faulty variant of the assignments: deflection is written under a name
\* that setup does not declare.
ComputeWritesMisspelt(s) == <<"stress", "deflect", "buckling", "cost">>

\* The outputs compute assigns, in order: outputs['stress'] = stress, ...
ComputeWrites(s) == <<"stress", "deflection", "buckling", "cost">>

\* Assigning the values to the output vector `out` one after the other; an
\* assignment to a name that is no declared output raises (KeyError) and
\* leaves the later outputs as they were.
RECURSIVE WriteOutputs(_, _, _, _, _)
WriteOutputs(s, writes, vals, declared, out) ==
    IF writes = << >> THEN [ok |-> TRUE, out |-> out]
    ELSE LET n == Prefix(s) \o Head(writes)
         IN  IF n \notin declared THEN [ok |-> FALSE, out |-> out]
             ELSE WriteOutputs(s, Tail(writes), vals, declared,
                               [out EXCEPT ![n] = vals[Head(writes)]])

(***************************************************************************)
(* Configuration: the fixed parameters and the design variables' bounds.   *)
(* H is counted in units of 1, d in quarters (a design vector is a pair of *)
(* integers on that grid).                                                 *)
(***************************************************************************)
HVal(h) == F(h, 0)

DVal(q) == FDiv(F(q, 0), F(4, 0))

DGrid(n) == 4 * n

\* indeps.add_output('H', val=30.0), prob.set_val('truss.H', 30.0)
StartH == 30

\* indeps.add_output('d', val=3.0), prob.set_val('truss.d', 3.0)
StartD == 3

\* add_design_var('H', lower=10.0, upper=30.0)
LowerH == 10

UpperH == 30

\* add_design_var('d', lower=1.0, upper=3.0)
LowerD == 1

UpperD == 3

StartX == [H |-> StartH, d |-> DGrid(StartD)]

\* The values the scripts ship.
Shipped ==
    [B |-> F(60, 0), t |-> F(15, -2), E |-> F(30000, 0), P |-> F(66, 0),
     rho |-> F(3, -1), stressMax |-> F(100, 0), deflectionMax |-> F(25, -2),
     HL |-> LowerH, HU |-> UpperH, dL |-> DGrid(LowerD), dU |-> DGrid(UpperD)]

\* Configurations with positive parameters and bounds, lower <= upper, and the
\* start inside the bounds: the shipped one, one with H fixed (lower = upper)
\* and other limits, one with d fixed, and one with a load under which the
\* start is infeasible.
ValidConfigs ==
    { Shipped,
      [Shipped EXCEPT !.HL = UpperH,
                      !.stressMax = F(120, 0), !.deflectionMax = F(5, -1)],
      [Shipped EXCEPT !.dL = DGrid(UpperD)],
      [Shipped EXCEPT !.P = F(660, 0)] }

\* Configurations the spec calls invalid: a parameter that is not positive, a
\* bound that is not positive, a lower bound above its upper bound.
InvalidConfigs ==
    { [Shipped EXCEPT !.t = FZero],
      [Shipped EXCEPT !.HL = 0],
      [Shipped EXCEPT !.dL = DGrid(UpperD), !.dU = DGrid(LowerD)] }

ParamNames == {"B", "t", "E", "P", "rho", "stressMax", "deflectionMax"}

IsInvalid(c) ==
    \/ \E n \in ParamNames : ~ FLt(FZero, c[n])
    \/ c.HL <= 0 \/ c.HU <= 0 \/ c.dL <= 0 \/ c.dU <= 0
    \/ c.HL > c.HU \/ c.dL > c.dU

(***************************************************************************)
(* The problem a script builds                                             *)
(***************************************************************************)
\* Outputs of the IndepVarComp 'indeps' (main.py only), promoted.
IndepNames(s) ==
    IF s = "main"
    THEN {"H", "d", "B", "t", "E", "P", "rho", "stressMax", "deflectionMax"}
    ELSE {}

\* The output of the subsystem computing stress - buckling:
\* StressBucklingConstraint (main.py), ExecComp (debug.py, test.py).
ConOutput(s) == ConPrefix(s) \o "stress_minus_buckling"

ConInputs(s) == {ConPrefix(s) \o "stress", ConPrefix(s) \o "buckling"}

InputsOf(s) == {Prefix(s) \o n : n \in TrussInputNames(s)} \cup ConInputs(s)

OutputsOf(s) == {Prefix(s) \o n : n \in TrussOutputNames(s)} \cup {ConOutput(s)}

\* main.py connects by promotion: an input is fed by the output of its name.
\* debug.py and test.py connect the two inputs of the ExecComp by hand.
ConnectionsOf(s) ==
    IF s = "main"
    THEN {<<n, n>> : n \in InputsOf(s) \cap (OutputsOf(s) \cup IndepNames(s))}
    ELSE {<<"truss.stress", "buckling_constraint.stress">>,
          <<"truss.buckling", "buckling_constraint.buckling">>}

\* A faulty variant of the design variables: d is given H's upper bound.
DesignVarsOfUpperOfH(s, c) ==
    <<[name |-> Prefix(s) \o "H", var |-> "H", lower |-> c.HL, upper |-> c.HU],
      [name |-> Prefix(s) \o "d", var |-> "d", lower |-> c.dL, upper |-> c.HU]>>

DesignVarsOf(s, c) ==
    <<[name |-> Prefix(s) \o "H", var |-> "H", lower |-> c.HL, upper |-> c.HU],
      [name |-> Prefix(s) \o "d", var |-> "d", lower |-> c.dL, upper |-> c.dU]>>

\* The add_constraint calls, in the order of the source.
ConstraintsOf(s) ==
    CASE s = "main" ->
           <<[name |-> "stress", upper |-> F(100, 0)],
             [name |-> "stress_minus_buckling", upper |-> FZero],
             [name |-> "deflection", upper |-> F(25, -2)]>>
      [] s = "debug" ->
           <<[name |-> "truss.stress", upper |-> F(100, 0)],
             [name |-> "truss.deflection", upper |-> F(25, -2)],
             [name |-> "buckling_constraint.stress_minus_buckling", upper |-> FZero]>>
      [] s = "test" ->
           <<[name |-> "truss.stress", upper |-> F(100, 0)],
             [name |-> "truss.deflection", upper |-> F(25, -2)],
             [name |-> "buckling_constraint.F", upper |-> FZero]>>

\* The names read back with get_val after the run.
ReadBack(s) ==
    {Prefix(s) \o n : n \in {"H", "d", "cost", "stress", "buckling", "deflection"}}

NoProblem ==
    [indeps |-> {}, inputs |-> {}, outputs |-> {}, connections |-> {},
     desvars |-> << >>, objective |-> "", constraints |-> << >>, driver |-> "none"]

BuildProblem(s, c) ==
    [indeps |-> IndepNames(s), inputs |-> InputsOf(s), outputs |-> OutputsOf(s),
     connections |-> ConnectionsOf(s),
     desvars |-> DesignVarsOf(s, c),
     objective |-> Prefix(s) \o "cost",
     constraints |-> ConstraintsOf(s),
     driver |-> IF s = "main" THEN "none" ELSE "SLSQP"]

Declared(p) == p.indeps \cup p.inputs \cup p.outputs

Range(f) == {f[i] : i \in DOMAIN f}

\* What setup and the driver's setup resolve by name: every design variable,
\* the objective, every constraint, both ends of every connection.
NamesResolve(p) ==
    /\ \A dv \in Range(p.desvars) : dv.name \in Declared(p)
    /\ p.objective \in p.outputs
    /\ \A con \in Range(p.constraints) : con.name \in Declared(p)
    /\ \A cn \in p.connections :
          cn[1] \in p.outputs \cup p.indeps /\ cn[2] \in p.inputs

\* The output an input of the stress - buckling subsystem is connected to.
SourceOf(p, tgt) == CHOOSE src \in p.outputs : <<src, tgt>> \in p.connections

\* The inputs compute reads: the design vector and the five parameters.
InputsAt(c, xv) ==
    [H |-> HVal(xv.H), d |-> DVal(xv.d), B |-> c.B, t |-> c.t,
     E |-> c.E, P |-> c.P, rho |-> c.rho]

TrussOutputsOf(s) == {Prefix(s) \o n : n \in TrussOutputNames(s)}

\* One evaluation of the model at design vector xv: the truss component's
\* compute, then the subsystem computing stress - buckling from its inputs.
\* The truss component's compute at xv, writing into the output vector prev.
RunTruss(s, c, xv, prev) ==
    CHOOSE w \in {WriteOutputs(s, ComputeWrites(s), vals, TrussOutputsOf(s), prev) :
                     vals \in {TrussCompute(InputsAt(c, xv))}} : TRUE

\* The subsystem computing stress - buckling, run after a compute that raised
\* nothing.
RunConstraint(s, p, w) ==
    IF ~ w.ok THEN w
    ELSE [ok |-> TRUE,
          out |-> [w.out EXCEPT ![ConOutput(s)] =
                      FSub(w.out[SourceOf(p, ConPrefix(s) \o "stress")],
                           w.out[SourceOf(p, ConPrefix(s) \o "buckling")])]]

EvalModel(s, p, c, xv, prev) ==
    CHOOSE ev \in {RunConstraint(s, p, w) : w \in {RunTruss(s, c, xv, prev)}} : TRUE

(***************************************************************************)
(* The optimizer's judgement of a point                                    *)
(***************************************************************************)
\* Iteration cap of a run.
MaxIter == 3

\* Halvings of alpha before the step is below the minimum step floor.
MaxHalvings == 2

RECURSIVE Pow2(_)
Pow2(n) == IF n = 0 THEN 1 ELSE 2 * Pow2(n - 1)

Terminal == {"CONVERGED", "ITERATION_LIMIT", "STALLED"}

Tol == F(1, -6)

PenaltyMu == F(10, 0)

\* g_i(x) = response - upper, each to be <= 0.
ConValue(out, con) == FSub(out[con.name], con.upper)

AllFinite(out) == \A n \in DOMAIN out : IsFinite(out[n])

Feasible(p, out) ==
    \A i \in DOMAIN p.constraints : FLe(ConValue(out, p.constraints[i]), Tol)

RECURSIVE Violation(_, _, _)
Violation(p, out, i) ==
    IF i > Len(p.constraints) THEN FZero
    ELSE FAdd(FMax(FZero, ConValue(out, p.constraints[i])),
              Violation(p, out, i + 1))

\* L1 merit: objective plus penalised constraint violation; a point with a
\* response that is not finite has merit +infinity.
Merit(p, out) ==
    IF ~ AllFinite(out) THEN FInf(1)
    ELSE FAdd(out[p.objective], FMul(PenaltyMu, Violation(p, out, 1)))

Min(a, b) == IF a <= b THEN a ELSE b

Max(a, b) == IF a >= b THEN a ELSE b

Clip(v, lo, up) == Min(Max(v, lo), up)

\* The design vector clipped into the design variables' bounds.
Project(p, xv) ==
    [H |-> Clip(xv.H, p.desvars[1].lower, p.desvars[1].upper),
     d |-> Clip(xv.d, p.desvars[2].lower, p.desvars[2].upper)]

NoDir == [set |-> FALSE, H |-> 0, d |-> 0]

\* The steps a QP subproblem may return, on the grid.
Directions ==
    {[set |-> TRUE, H |-> a * Pow2(MaxHalvings), d |-> b * Pow2(MaxHalvings)] :
        a \in {-1, 0, 1}, b \in {-1, 0, 1}}

\* x + alpha * dir with alpha = 2^-k, projected into the bounds.
Trial(p, xv, dr, k) ==
    Project(p, [H |-> xv.H + dr.H \div Pow2(k), d |-> xv.d + dr.d \div Pow2(k)])

(***************************************************************************)
(* The scripts, step by step                                               *)
(***************************************************************************)
optVars == <<st, x, iter, dir, alphaK, reason>>

harnessVars == <<cin, cout>>

\* The model is put together: subsystems, design variables, objective,
\* constraints, connections (and, in debug.py and test.py, the driver).
Build ==
    /\ pc = "build"
    /\ prob' = BuildProblem(script, cfg)
    /\ pc' = "setup"
    /\ UNCHANGED <<script, cfg, err, outputs, hasEval, optVars, result, harnessVars>>

\* prob.setup(): a name that does not resolve ends the script.
Setup ==
    /\ pc = "setup"
    /\ IF NamesResolve(prob)
       THEN /\ outputs' = [n \in prob.outputs |-> OutputDefault(script, n)]
            /\ pc' = IF script = "main" THEN "setdriver" ELSE "setvals"
            /\ err' = err
       ELSE /\ pc' = "error"
            /\ err' = "name_not_found"
            /\ outputs' = outputs
    /\ UNCHANGED <<script, cfg, prob, hasEval, optVars, result, harnessVars>>

\* main.py: prob.driver = om.ScipyOptimizeDriver(), optimizer SLSQP.
SetDriver ==
    /\ pc = "setdriver"
    /\ prob' = [prob EXCEPT !.driver = "SLSQP"]
    /\ pc' = "run"
    /\ UNCHANGED <<script, cfg, err, outputs, hasEval, optVars, result, harnessVars>>

\* debug.py, test.py: prob.set_val of H, d and the parameters.
SetVals ==
    /\ pc = "setvals"
    /\ x' = StartX
    /\ pc' = "run"
    /\ UNCHANGED <<script, cfg, err, prob, outputs, hasEval,
                   st, iter, dir, alphaK, reason, result, harnessVars>>

\* prob.run_driver(): control passes to the driver.
RunDriver ==
    /\ pc = "run"
    /\ pc' = "driver"
    /\ UNCHANGED <<script, cfg, err, prob, outputs, hasEval, optVars, result, harnessVars>>

\* run_driver() returns; its return value is dropped.
DriverReturn ==
    /\ pc = "driver"
    /\ st \in Terminal
    /\ pc' = "print"
    /\ UNCHANGED <<script, cfg, err, prob, outputs, hasEval, optVars, result, harnessVars>>

\* The value get_val gives for a declared name.
ValueOf(s, n, xv, out) ==
    IF n = Prefix(s) \o "H" THEN HVal(xv.H)
    ELSE IF n = Prefix(s) \o "d" THEN DVal(xv.d)
    ELSE out[n]

\* A faulty variant of the prints: the design variables are set back to the
\* start before they are read.
PrintResultsAtStart ==
    /\ pc = "print"
    /\ x' = StartX
    /\ result' = [n \in ReadBack(script) |-> ValueOf(script, n, StartX, outputs)]
    /\ pc' = "done"
    /\ UNCHANGED <<script, cfg, err, prob, outputs, hasEval,
                   st, iter, dir, alphaK, reason, harnessVars>>

\* The prints after the run: six values read back with get_val.
PrintResults ==
    /\ pc = "print"
    /\ IF ReadBack(script) \subseteq Declared(prob)
       THEN /\ result' = [n \in ReadBack(script) |-> ValueOf(script, n, x, outputs)]
            /\ pc' = "done"
            /\ err' = err
       ELSE /\ pc' = "error"
            /\ err' = "name_not_found"
            /\ result' = result
    /\ UNCHANGED <<script, cfg, prob, outputs, hasEval, optVars, harnessVars>>

(***************************************************************************)
(* The driver's optimization loop                                          *)
(***************************************************************************)
\* Initialization: the responses and constraints at the starting point.
OptInitialize ==
    /\ pc = "driver"
    /\ st = "NOT_STARTED"
    /\ \E ev \in {EvalModel(script, prob, cfg, x, outputs)} :
           /\ outputs' = ev.out
           /\ hasEval' = TRUE
           /\ IF ev.ok
              THEN /\ st' = "INITIALIZED"
                   /\ UNCHANGED <<pc, err>>
              ELSE /\ st' = st
                   /\ pc' = "error"
                   /\ err' = "key_error"
    /\ UNCHANGED <<script, cfg, prob, x, iter, dir, alphaK, reason, result, harnessVars>>

OptBegin ==
    /\ pc = "driver"
    /\ st = "INITIALIZED"
    /\ st' = "ITERATING"
    /\ UNCHANGED <<script, cfg, pc, err, prob, outputs, hasEval,
                   x, iter, dir, alphaK, reason, result, harnessVars>>

\* The iteration count has reached the cap.
OptIterationLimit ==
    /\ pc = "driver"
    /\ st = "ITERATING"
    /\ ~ dir.set
    /\ iter >= MaxIter
    /\ st' = "ITERATION_LIMIT"
    /\ reason' = "iteration-limit"
    /\ UNCHANGED <<script, cfg, pc, err, prob, outputs, hasEval,
                   x, iter, dir, alphaK, result, harnessVars>>

\* The QP subproblem returns a zero step at a feasible point.
OptConverge ==
    /\ pc = "driver"
    /\ st = "ITERATING"
    /\ ~ dir.set
    /\ iter < MaxIter
    /\ Feasible(prob, outputs)
    /\ st' = "CONVERGED"
    /\ reason' = "converged"
    /\ UNCHANGED <<script, cfg, pc, err, prob, outputs, hasEval,
                   x, iter, dir, alphaK, result, harnessVars>>

\* No step is found at an infeasible point: feasibility restoration failed.
OptRestorationFail ==
    /\ pc = "driver"
    /\ st = "ITERATING"
    /\ ~ dir.set
    /\ iter < MaxIter
    /\ ~ Feasible(prob, outputs)
    /\ st' = "STALLED"
    /\ reason' = "stalled"
    /\ UNCHANGED <<script, cfg, pc, err, prob, outputs, hasEval,
                   x, iter, dir, alphaK, result, harnessVars>>

\* The QP subproblem returns a step; the line search starts at alpha = 1.
OptChooseStep ==
    /\ pc = "driver"
    /\ st = "ITERATING"
    /\ ~ dir.set
    /\ iter < MaxIter
    /\ \E dr \in Directions :
          /\ dr.H # 0 \/ dr.d # 0
          /\ dir' = dr
    /\ alphaK' = 0
    /\ UNCHANGED <<script, cfg, pc, err, prob, outputs, hasEval,
                   st, x, iter, reason, result, harnessVars>>

\* Whether the line search takes the trial point: its responses are finite
\* and its merit is lower.
Accepts(p, cur, ev) ==
    /\ ev.ok
    /\ AllFinite(ev.out)
    /\ FLt(Merit(p, ev.out), Merit(p, cur))

\* The trial point is taken: it becomes the iterate.
OptAcceptStep ==
    /\ pc = "driver"
    /\ st = "ITERATING"
    /\ dir.set
    /\ \E tx \in {Trial(prob, x, dir, alphaK)} :
          \E ev \in {EvalModel(script, prob, cfg, tx, outputs)} :
             /\ Accepts(prob, outputs, ev)
             /\ x' = tx
             /\ outputs' = ev.out
    /\ iter' = iter + 1
    /\ dir' = NoDir
    /\ alphaK' = 0
    /\ UNCHANGED <<script, cfg, pc, err, prob, hasEval, st, reason, result, harnessVars>>

\* The trial point is rejected and alpha halved.
OptBacktrack ==
    /\ pc = "driver"
    /\ st = "ITERATING"
    /\ dir.set
    /\ alphaK < MaxHalvings
    /\ \E ev \in {EvalModel(script, prob, cfg, Trial(prob, x, dir, alphaK), outputs)} :
          ~ Accepts(prob, outputs, ev)
    /\ alphaK' = alphaK + 1
    /\ UNCHANGED <<script, cfg, pc, err, prob, outputs, hasEval,
                   st, x, iter, dir, reason, result, harnessVars>>

\* The trial point at the minimum step is rejected: the run has stalled.
OptStall ==
    /\ pc = "driver"
    /\ st = "ITERATING"
    /\ dir.set
    /\ alphaK >= MaxHalvings
    /\ \E ev \in {EvalModel(script, prob, cfg, Trial(prob, x, dir, alphaK), outputs)} :
          ~ Accepts(prob, outputs, ev)
    /\ st' = "STALLED"
    /\ reason' = "stalled"
    /\ dir' = NoDir
    /\ UNCHANGED <<script, cfg, pc, err, prob, outputs, hasEval,
                   x, iter, alphaK, result, harnessVars>>

(***************************************************************************)
(* Specifications                                                          *)
(***************************************************************************)
InitRun ==
    /\ pc = "build"
    /\ err = "none"
    /\ prob = NoProblem
    /\ outputs = << >>
    /\ hasEval = FALSE
    /\ st = "NOT_STARTED"
    /\ x = StartX
    /\ iter = 0
    /\ dir = NoDir
    /\ alphaK = 0
    /\ reason = "none"
    /\ result = << >>
    /\ cin = StartX
    /\ cout = << >>

Init ==
    /\ script \in Scripts
    /\ cfg \in ValidConfigs
    /\ InitRun

InitAny ==
    /\ script \in Scripts
    /\ cfg \in ValidConfigs \cup InvalidConfigs
    /\ InitRun

Next ==
    \/ Build
    \/ Setup
    \/ SetDriver
    \/ SetVals
    \/ RunDriver
    \/ OptInitialize
    \/ OptBegin
    \/ OptIterationLimit
    \/ OptConverge
    \/ OptRestorationFail
    \/ OptChooseStep
    \/ OptAcceptStep
    \/ OptBacktrack
    \/ OptStall
    \/ DriverReturn
    \/ PrintResults

Spec == Init /\ [][Next]_vars

SpecAny == InitAny /\ [][Next]_vars

FairSpec == Init /\ [][Next]_vars /\ WF_vars(Next)

(***************************************************************************)
(* The component's compute on its own: each script's component is given    *)
(* the same inputs and evaluated; its output vector persists between       *)
(* evaluations.                                                            *)
(***************************************************************************)
ComputeInputs == {[H |-> h, d |-> q] : h \in {10, 20, 30}, q \in {4, 12}}

\* The inputs change (the driver sets a new design vector): every output
\* vector is stale until its component is evaluated again.
SetInputs ==
    /\ \E xv \in ComputeInputs : xv # cin /\ cin' = xv
    /\ cout' = [s \in Scripts |-> [cout[s] EXCEPT !.done = FALSE]]
    /\ UNCHANGED <<script, cfg, pc, err, prob, outputs, hasEval, optVars, result>>

\* compute(inputs, outputs) of script s's component.
Compute(s) ==
    /\ ~ cout[s].done
    /\ \E w \in {RunTruss(s, cfg, cin, cout[s].out)} :
          cout' = [cout EXCEPT ![s] = [done |-> TRUE, ok |-> w.ok, out |-> w.out]]
    /\ UNCHANGED <<script, cfg, pc, err, prob, outputs, hasEval, optVars, result, cin>>

InitCompute ==
    /\ script = "main"
    /\ cfg = Shipped
    /\ pc = "build"
    /\ err = "none"
    /\ prob = NoProblem
    /\ outputs = << >>
    /\ hasEval = FALSE
    /\ st = "NOT_STARTED"
    /\ x = StartX
    /\ iter = 0
    /\ dir = NoDir
    /\ alphaK = 0
    /\ reason = "none"
    /\ result = << >>
    /\ cin \in ComputeInputs
    /\ cout = [s \in Scripts |->
                 [done |-> FALSE, ok |-> TRUE,
                  out |-> [n \in TrussOutputsOf(s) |-> OutputDefault(s, n)]]]

NextCompute ==
    \/ SetInputs
    \/ \E s \in Scripts : Compute(s)

SpecCompute == InitCompute /\ [][NextCompute]_vars

(***************************************************************************)
(* Claims                                                                  *)
(***************************************************************************)

\* C1: in every run, from the start through every iteration to the returned
\* result, the design vector lies within the bounds lower <= H <= upper and
\* lower <= d <= upper, and a design variable whose lower bound equals its
\* upper bound is returned equal to that bound.
C1_DesignVectorInBounds ==
    /\ cfg.HL <= x.H /\ x.H <= cfg.HU
    /\ cfg.dL <= x.d /\ x.d <= cfg.dU
    /\ pc = "done" =>
          /\ result[Prefix(script) \o "H"] = HVal(x.H)
          /\ result[Prefix(script) \o "d"] = DVal(x.d)
          /\ cfg.HL = cfg.HU => result[Prefix(script) \o "H"] = HVal(cfg.HU)
          /\ cfg.dL = cfg.dU => result[Prefix(script) \o "d"] = DVal(cfg.dU)

\* A finished run with d fixed by its bounds in which H has moved.
C1_Witness ==
    /\ pc = "done"
    /\ cfg.dL = cfg.dU
    /\ iter >= 1
    /\ x.H # StartH

\* C2 (as claimed): in every script the problem handed to the driver carries
\* exactly the three constraints stress <= bound, stress - buckling <= 0 and
\* deflection <= bound, the second on the output that is computed from the
\* truss component's stress and buckling outputs.
C2_ThreeConstraintsBucklingWired ==
    pc # "build" =>
       /\ Len(prob.constraints) = 3
       /\ {con.name : con \in Range(prob.constraints)} =
             {Prefix(script) \o "stress", ConOutput(script),
              Prefix(script) \o "deflection"}
       /\ \A con \in Range(prob.constraints) :
             con.name = ConOutput(script) => con.upper = FZero
       /\ ConOutput(script) \in prob.outputs
       /\ <<Prefix(script) \o "stress", ConPrefix(script) \o "stress">>
             \in prob.connections
       /\ <<Prefix(script) \o "buckling", ConPrefix(script) \o "buckling">>
             \in prob.connections
       /\ {Prefix(script) \o "stress", Prefix(script) \o "buckling"}
             \subseteq prob.outputs

\* The spec's equations for the four responses.
ClosedForm(inp) ==
    LET L == FSqrt(FAdd(FPow2(FDiv(inp.B, F(2, 0))), FPow2(inp.H)))
        A == FMul(FMul(FPi, inp.d), inp.t)
        IoverA == FDiv(FAdd(FPow2(inp.d), FPow2(inp.t)), F(8, 0))
    IN  [stress |-> FDiv(FMul(inp.P, L), FMul(FMul(F(2, 0), A), inp.H)),
         deflection |-> FDiv(FMul(inp.P, FPow3(L)),
                             FMul(FMul(FMul(F(2, 0), inp.E), A), FPow2(inp.H))),
         buckling |-> FDiv(FMul(FMul(FPow2(FPi), inp.E), IoverA), FPow2(L)),
         cost |-> FMul(FMul(FMul(F(2, 0), inp.rho), A), L)]

Responses == {"stress", "deflection", "buckling", "cost"}

\* C3 (as claimed): after every evaluation, in each of the three scripts, the
\* four responses are the closed-form functions of the current inputs only
\* (so the scripts' compute functions agree on every input).
C3_ResponsesAreClosedForm ==
    \A s \in Scripts :
       cout[s].done =>
          /\ cout[s].ok
          /\ \A n \in Responses :
                /\ Prefix(s) \o n \in DOMAIN cout[s].out
                /\ cout[s].out[Prefix(s) \o n] = ClosedForm(InputsAt(cfg, cin))[n]

\* C4: the optimizer's state only moves INITIALIZED -> ITERATING -> one of
\* CONVERGED, ITERATION_LIMIT, STALLED, and from a terminal state nothing of
\* the run changes any more: not the state, the iterate, its responses, the
\* iteration counter or the termination reason.
C4_StateMachine ==
    [][ /\ st = "NOT_STARTED" => st' \in {"NOT_STARTED", "INITIALIZED"}
        /\ st = "INITIALIZED" => st' \in {"INITIALIZED", "ITERATING"}
        /\ st = "ITERATING" => st' \in {"ITERATING"} \cup Terminal
        /\ st \in Terminal =>
              /\ st' = st
              /\ x' = x
              /\ outputs' = outputs
              /\ iter' = iter
              /\ reason' = reason ]_vars

\* A run that has moved its iterate, ended, returned and printed.
C4_Witness ==
    /\ pc = "done"
    /\ st \in Terminal
    /\ x # StartX

\* C5: every optimization run ends in one of the terminal states, its
\* iteration counter never above the cap and each line search halving alpha
\* at most down to the minimum step.
C5_Terminates ==
    /\ [](iter <= MaxIter /\ alphaK <= MaxHalvings)
    /\ (pc = "driver") ~> (st \in Terminal)
    /\ [](st \in Terminal <=> reason # "none")

\* A run stalled at the minimum step after at least one accepted step.
C5_Witness ==
    /\ st = "STALLED"
    /\ alphaK = MaxHalvings
    /\ iter >= 1

\* C6 (as claimed): the iterate's responses never hold NaN or Inf, whatever
\* the evaluations of the run gave, and the run does not end in an error.
C6_IterateAlwaysFinite ==
    /\ hasEval => AllFinite(outputs)
    /\ script # "test" => pc # "error"

\* C7 (as claimed): with a parameter or bound that is not positive, or a lower
\* bound above its upper bound, the script ends at setup: the model is never
\* evaluated and the driver never run.
C7_InvalidConfigStopsAtSetup ==
    IsInvalid(cfg) =>
       /\ ~ hasEval
       /\ st = "NOT_STARTED"
       /\ pc \notin {"driver", "print", "done"}

\* C8 (as claimed): the result of every run carries a feasible flag and a
\* termination reason, and the flag is true only if the three constraints
\* hold at the returned design.
C8_ResultCarriesFeasibleFlag ==
    pc = "done" =>
       /\ "feasible" \in DOMAIN result
       /\ "termination_reason" \in DOMAIN result
       /\ result["feasible"] => Feasible(prob, outputs)

\* C9 (as claimed): the bound of the stress constraint is the configured
\* stressMax and the bound of the deflection constraint the configured
\* deflectionMax.
C9_LimitsAreTheParameters ==
    pc # "build" =>
       \A con \in Range(prob.constraints) :
          /\ con.name = Prefix(script) \o "stress" => con.upper = cfg.stressMax
          /\ con.name = Prefix(script) \o "deflection" =>
                con.upper = cfg.deflectionMax

\* C10 (as claimed): in every script, every output compute writes is a
\* declared output, every name constrained, connected or read back is a
\* declared variable, and no run ends in a name-resolution failure.
C10_NamesAreDeclared ==
    /\ {Prefix(script) \o n : n \in Range(ComputeWrites(script))}
          \subseteq OutputsOf(script)
    /\ pc # "build" =>
          /\ NamesResolve(prob)
          /\ ReadBack(script) \subseteq Declared(prob)
    /\ err = "none"

====
